---------------------------- MODULE Spec2Model ----------------------------
(***************************************************************************)
(* A model of the blog backend: the User, Post and Comment collections,    *)
(* the services that write them (BlogService, UserService) and the         *)
(* queries that read them (PostService, SearchService, AnalyticsService).  *)
(*                                                                         *)
(* Thirteen specifications share the state:                                *)
(*   Spec         the post collection under createPost, publishPost and    *)
(*                concurrent getPostBySlug calls;                          *)
(*   UserSpec     posts and users under the writers, with the author       *)
(*                statistics;                                              *)
(*   CommentSpec  the comment collection under addComment;                 *)
(*   ThreadSpec   getPostWithComments over a family of comment             *)
(*                collections;                                             *)
(*   SearchSpec   searchPosts and findSimilarPosts over a family of post   *)
(*                and user collections;                                    *)
(*   PopularSpec  getPopularPostsThisWeek over a family of post and user   *)
(*                collections;                                             *)
(*   LikesSpec    getPostBySlug for a post with up to LikesLimit + 1       *)
(*                likes;                                                   *)
(*   AccountSpec  concurrent createUser calls;                             *)
(*   ManageSpec   updateUser, softDeleteUser, hardDeleteUser and the       *)
(*                lookups by id, email and slug;                           *)
(*   DeriveSpec   the derived fields of a post: the slug and the read      *)
(*                time;                                                    *)
(*   PageSpec     the paginated lists getUsers and getPostsByCategory;     *)
(*   ApprovalSpec concurrent addComment calls in their two steps;          *)
(*   ConnSpec     the DatabaseConnection singleton under concurrent        *)
(*                connect and disconnect calls.                            *)
(***************************************************************************)
EXTENDS Integers, Sequences, FiniteSets, TLC

VARIABLES
    users,      \* User collection: _id -> document
    posts,      \* Post collection: _id -> document
    comments,   \* Comment collection: _id -> document
    now,        \* the wall clock read by new Date()
    pc,         \* getPostBySlug invocation -> "start" | "inc" | "done"
    fetched,    \* getPostBySlug invocation -> the document findOne returned
    calls,      \* post _id -> number of getPostBySlug calls that found it
    ret,        \* what the last operation returned (or threw)
    db          \* the DatabaseConnection instance and the mongoose connection

vars == <<users, posts, comments, now, pc, fetched, calls, ret, db>>

NULL == "null"

\* A Date field that is not set.
NoDate == -1

\* The DatabaseConnection singleton as constructed, with the mongoose
\* connection it wraps: opens counts the mongoose.connect() calls made and
\* handlers the registrations of the error, disconnected and SIGINT handlers.
DatabaseConnection ==
    [isConnected |-> FALSE, readyState |-> 0, opens |-> 0, handlers |-> 0]

\* The connection after main's db.connect(), which the services run on.
Connected ==
    [isConnected |-> TRUE, readyState |-> 1, opens |-> 1, handlers |-> 1]

\* A reference that is not set (parentComment: null, a findById that found nothing).
NoId == 0

(***************************************************************************)
(* Bounds of the model.                                                    *)
(***************************************************************************)
NumCalls == 2       \* concurrent getPostBySlug invocations
MaxTime == 2        \* clock values 0..MaxTime
MaxComments == 2    \* comments addComment adds in CommentSpec

Calls == 1..NumCalls
Times == 0..MaxTime

(***************************************************************************)
(* PostStatus (blog.types.ts).                                             *)
(***************************************************************************)
DRAFT == "draft"
PUBLISHED == "published"
ARCHIVED == "archived"
PostStatus == {DRAFT, PUBLISHED, ARCHIVED}

(***************************************************************************)
(* Sequences and orderings.                                                *)
(***************************************************************************)
Range(s) == {s[i] : i \in DOMAIN s}

Take(s, n) == IF Len(s) <= n THEN s ELSE SubSeq(s, 1, n)

Min(a, b) == IF a <= b THEN a ELSE b

RECURSIVE SumOver(_, _)
SumOver(S, f) ==
    IF S = {} THEN 0
    ELSE LET x == CHOOSE y \in S : TRUE
         IN  f[x] + SumOver(S \ {x}, f)

MaxKey(S, key) == key[CHOOSE x \in S : \A y \in S : key[x] >= key[y]]

\* Every ordering of S by non-increasing key: what a sort on key descending may
\* return (documents with equal keys come in any order).
RECURSIVE DescOrders(_, _)
DescOrders(S, key) ==
    IF \A x, y \in S : x # y => key[x] # key[y]
    THEN {[i \in 1 .. Cardinality(S) |->
            CHOOSE x \in S : Cardinality({y \in S : key[y] > key[x]}) = i - 1]}
    ELSE LET m == MaxKey(S, key)
             tops == {x \in S : key[x] = m}
         IN  UNION {{<<x>> \o t : t \in DescOrders(S \ {x}, key)} : x \in tops}

Reverse(s) == [i \in DOMAIN s |-> s[Len(s) + 1 - i]]

\* Every ordering of S by non-decreasing key.
AscOrders(S, key) == {Reverse(s) : s \in DescOrders(S, key)}

IsDesc(s, key) == \A i \in 1..(Len(s) - 1) : key[s[i]] >= key[s[i + 1]]
IsAsc(s, key) == \A i \in 1..(Len(s) - 1) : key[s[i]] <= key[s[i + 1]]
NoDup(s) == \A i, j \in DOMAIN s : i # j => s[i] # s[j]

(***************************************************************************)
(* Strings are sequences of one-character strings.                         *)
(***************************************************************************)
LowerLetters == {"a", "b", "c", "s"}
UpperLetters == {"A", "B", "C"}
Digits == {"1"}
Whitespace == {" ", "\t"}

toLowerCase(s) ==
    [i \in DOMAIN s |->
        CASE s[i] = "A" -> "a"
          [] s[i] = "B" -> "b"
          [] s[i] = "C" -> "c"
          [] OTHER -> s[i]]

RECURSIVE Filter(_, _)
Filter(s, keep) ==
    IF s = <<>> THEN <<>>
    ELSE (IF Head(s) \in keep THEN <<Head(s)>> ELSE <<>>) \o Filter(Tail(s), keep)

\* s.replace(/[cls]+/g, by): every maximal run of characters of cls becomes by.
RECURSIVE ReplaceRuns(_, _, _)
ReplaceRuns(s, cls, by) ==
    IF s = <<>> THEN <<>>
    ELSE IF Head(s) \in cls
         THEN IF Len(s) > 1 /\ s[2] \in cls
              THEN ReplaceRuns(Tail(s), cls, by)
              ELSE by \o ReplaceRuns(Tail(s), cls, by)
         ELSE <<Head(s)>> \o ReplaceRuns(Tail(s), cls, by)

RECURSIVE TrimLeft(_)
TrimLeft(s) ==
    IF s # <<>> /\ Head(s) \in Whitespace THEN TrimLeft(Tail(s)) ELSE s

RECURSIVE TrimRight(_)
TrimRight(s) ==
    IF s # <<>> /\ s[Len(s)] \in Whitespace
    THEN TrimRight(SubSeq(s, 1, Len(s) - 1))
    ELSE s

\* String.prototype.trim
trim(s) == TrimRight(TrimLeft(s))

\* The derivation with the hyphen runs collapsed before the whitespace runs
\* are replaced.
generateSlugFromTitleSwapped(title) ==
    trim(ReplaceRuns(
            ReplaceRuns(
                Filter(toLowerCase(title), LowerLetters \cup Digits \cup {" ", "-"}),
                {"-"}, <<"-">>),
            Whitespace, <<"-">>))

\* PostSchema.methods.generateSlug: as generateSlugFromTitle, but the first
\* replace keeps every whitespace character (\s), not only the space.
generateSlug(title) ==
    trim(ReplaceRuns(
            ReplaceRuns(
                Filter(toLowerCase(title), LowerLetters \cup Digits \cup Whitespace \cup {"-"}),
                Whitespace, <<"-">>),
            {"-"}, <<"-">>))

\* BlogService.generateSlugFromTitle
generateSlugFromTitle(title) ==
    trim(ReplaceRuns(
            ReplaceRuns(
                Filter(toLowerCase(title), LowerLetters \cup Digits \cup {" ", "-"}),
                Whitespace, <<"-">>),
            {"-"}, <<"-">>))

\* The slug path of PostSchema: required, and /^[a-z0-9-]+$/ after lowercase.
SlugValid(slug) ==
    /\ slug # <<>>
    /\ \A i \in DOMAIN slug : toLowerCase(slug)[i] \in LowerLetters \cup Digits \cup {"-"}

(***************************************************************************)
(* The store Spec starts from: two registered users and one published      *)
(* post that two users liked.                                              *)
(***************************************************************************)
MinPasswordLen == 8

\* A password of the least length the schema accepts.
PasswordOf(ch) == [i \in 1 .. MinPasswordLen |-> ch]

SeedUsers ==
    (1 :> [email |-> <<"a", "@", "b", ".", "c">>, password |-> PasswordOf("a"),
           firstName |-> <<"A", "b">>, lastName |-> <<"c">>,
           username |-> <<"a", "b", "1">>, isActive |-> TRUE])
    @@
    (2 :> [email |-> <<"b", "@", "b", ".", "c">>, password |-> PasswordOf("b"),
           firstName |-> <<"B", "a">>, lastName |-> <<"s">>,
           username |-> <<"b", "a", "s">>, isActive |-> TRUE])

SeedPosts ==
    (1 :> [title |-> <<"s">>, slug |-> <<"s">>, author |-> 1,
           status |-> PUBLISHED, publishedAt |-> 0,
           categories |-> {"Technology"}, tags |-> {"mongodb"},
           featuredImage |-> NULL, views |-> 10, likes |-> {1, 2}])

UserIds == DOMAIN SeedUsers
\* The ids a caller may name: those of the posts the store can hold (the seed
\* and one per slug createPost can derive) and one that is never assigned.
PostIds == {1, 2, 3}

\* What createPost is called with.
Titles == {<<"A", " ", "b">>, <<"!", "!">>}
SlugInputs == {<<>>, <<"A", "-", "B">>}
StatusInputs == PostStatus \cup {NULL}
CategoryInputs == {{"Technology"}}
TagInputs == {{}}

\* What getPostBySlug is called with.
SlugQueries == {<<"s">>, <<"a", "-", "b">>, <<"c">>}

NoReturn == [op |-> "none", err |-> "none", val |-> NULL]

Returned(op, val) == [op |-> op, err |-> "none", val |-> val]
Threw(op, err) == [op |-> op, err |-> err, val |-> NULL]

Init ==
    /\ users = SeedUsers
    /\ posts = SeedPosts
    /\ comments = <<>>
    /\ now = 0
    /\ pc = [c \in Calls |-> "start"]
    /\ fetched = [c \in Calls |-> NULL]
    /\ calls = [p \in PostIds |-> 0]
    /\ ret = NoReturn
    /\ db = Connected

\* The clock advances between operations.
Tick ==
    /\ now < MaxTime
    /\ now' = now + 1
    /\ ret' = NoReturn
    /\ UNCHANGED <<users, posts, comments, pc, fetched, calls, db>>

(***************************************************************************)
(* BlogService.createPost and the Post schema's save path.                 *)
(***************************************************************************)
\* A save hook that leaves the published date as it finds it.
PreSaveKeepsPublishedAt(statusModified, status, publishedAt) == publishedAt

\* PostSchema.pre('save'): the published date of a document being saved.
PreSavePublishedAt(statusModified, status, publishedAt) ==
    IF statusModified /\ status = PUBLISHED /\ publishedAt = NoDate
    THEN now
    ELSE publishedAt

NewPost(title, slug, statusIn, authorId, categories, tags) ==
    LET status == IF statusIn = NULL THEN DRAFT ELSE statusIn
    IN  [title |-> trim(title), slug |-> toLowerCase(slug), author |-> authorId,
         status |-> status,
         publishedAt |-> PreSavePublishedAt(statusIn # NULL, status, NoDate),
         categories |-> categories, tags |-> tags,
         featuredImage |-> NULL, views |-> 0, likes |-> {}]

createPostResult(id, title, slugIn, err) ==
    [op |-> "createPost", err |-> err,
     val |-> [id |-> id, title |-> title, slug |-> slugIn]]

createPost(title, slugIn, statusIn, authorId, categories, tags) ==
    LET slug == IF slugIn # <<>> THEN slugIn ELSE generateSlugFromTitle(title)
        id == Cardinality(DOMAIN posts) + 1
    IN  /\ IF ~SlugValid(slug)
           THEN /\ ret' = createPostResult(NoId, title, slugIn, "ValidationError")
                /\ posts' = posts
           ELSE IF \E p \in DOMAIN posts : posts[p].slug = toLowerCase(slug)
           THEN /\ ret' = createPostResult(NoId, title, slugIn, "duplicate key")
                /\ posts' = posts
           ELSE /\ posts' = posts @@
                        (id :> NewPost(title, slug, statusIn, authorId, categories, tags))
                /\ ret' = createPostResult(id, title, slugIn, "none")
        /\ UNCHANGED <<users, comments, now, pc, fetched, calls, db>>

(***************************************************************************)
(* BlogService.publishPost: findByIdAndUpdate writes both fields whatever  *)
(* the stored document holds, and runs no save middleware.                 *)
(***************************************************************************)
PublishUpdate(post) == [post EXCEPT !.status = PUBLISHED, !.publishedAt = now]

publishPost(postId) ==
    /\ IF postId \in DOMAIN posts
       THEN /\ posts' = [posts EXCEPT ![postId] = PublishUpdate(posts[postId])]
            /\ ret' = Returned("publishPost", postId)
       ELSE /\ posts' = posts
            /\ ret' = [op |-> "publishPost", err |-> "Post not found", val |-> postId]
    /\ UNCHANGED <<users, comments, now, pc, fetched, calls, db>>

(***************************************************************************)
(* PostService.getPostBySlug: findOne, then (after the await) the          *)
(* increment, a single-document update the store applies atomically.       *)
(***************************************************************************)
FindPublishedBySlug(slug) ==
    {p \in DOMAIN posts : posts[p].slug = slug /\ posts[p].status = PUBLISHED}

\* The increment as a write of the fetched document's count plus one.
IncViewsOfFetched(stored, doc) == doc.views + 1

\* The update with a decrement in place of the increment.
DecViews(stored, doc) == stored.views - 1

\* { $inc: { views: 1 } } on the stored document.
IncViews(stored, doc) == stored.views + 1

\* populate({ path: 'likes', options: { limit: 10 } }): the likes path of the
\* fetched document becomes the user documents found for it, at most
\* LikesLimit of them, in place of the stored ids.
LikesLimit == 10

PopulatedLikes(p) ==
    LET found == posts[p].likes \cap DOMAIN users
    IN  {L \in SUBSET found : Cardinality(L) = Min(Cardinality(found), LikesLimit)}

\* PostSchema.virtual('likesCount') read on a document.
likesCount(doc) == Cardinality(doc.likes)

\* The null a findOne that matches nothing resolves to.
NoPost(slug) == [id |-> NoId, views |-> 0, likes |-> {}, slug |-> slug]

getPostBySlugFind(c, slug) ==
    /\ pc[c] = "start"
    /\ LET found == FindPublishedBySlug(slug)
       IN  IF found = {}
           THEN /\ pc' = [pc EXCEPT ![c] = "done"]
                /\ fetched' = fetched
                /\ calls' = calls
                /\ ret' = Returned("getPostBySlug", NoPost(slug))
           ELSE \E p \in found : \E populated \in PopulatedLikes(p) :
                /\ pc' = [pc EXCEPT ![c] = "inc"]
                /\ fetched' = [fetched EXCEPT ![c] =
                                [id |-> p, views |-> posts[p].views, likes |-> populated]]
                /\ calls' = [calls EXCEPT ![p] = @ + 1]
                /\ ret' = NoReturn
    /\ UNCHANGED <<users, posts, comments, now, db>>

getPostBySlugInc(c) ==
    /\ pc[c] = "inc"
    /\ LET p == fetched[c].id
       IN  /\ posts' = [posts EXCEPT ![p].views = IncViews(posts[p], fetched[c])]
           /\ ret' = Returned("getPostBySlug", fetched[c])
    /\ pc' = [pc EXCEPT ![c] = "done"]
    /\ fetched' = [fetched EXCEPT ![c] = NULL]
    /\ UNCHANGED <<users, comments, now, calls, db>>

(***************************************************************************)
(* UserService.hardDeleteUser: findByIdAndDelete. Posts and comments of    *)
(* the user keep their author reference.                                   *)
(***************************************************************************)
\* if (!result) / if (!user): the findByIdAnd... call resolved to null.
UserNotFound(userId) == userId \notin DOMAIN users

\* A UserService call on one id that returns whatever it found.
UserResultNoThrow(op, userId, err) == [op |-> op, err |-> "none", val |-> [id |-> userId]]

\* What a UserService call on one id returned (err "none") or threw.
UserResult(op, userId, err) == [op |-> op, err |-> err, val |-> [id |-> userId]]

hardDeleteUser(userId) ==
    /\ IF UserNotFound(userId)
       THEN /\ users' = users
            /\ ret' = UserResult("hardDeleteUser", userId, "User not found")
       ELSE /\ users' = [u \in DOMAIN users \ {userId} |-> users[u]]
            /\ ret' = UserResult("hardDeleteUser", userId, "none")
    /\ UNCHANGED <<posts, comments, now, pc, fetched, calls, db>>

(***************************************************************************)
(* AnalyticsService.getAuthorStatistics: the aggregation pipeline, stage   *)
(* by stage. A row carries the fields the $project stage keeps whose value *)
(* the model follows.                                                      *)
(***************************************************************************)
PublishedPosts == {p \in DOMAIN posts : posts[p].status = PUBLISHED}

\* $match and $group by author
AuthorGroups == {posts[p].author : p \in PublishedPosts}

PostsOfAuthor(a) == {p \in PublishedPosts : posts[p].author = a}

GroupRow(a) ==
    [_id |-> a,
     postCount |-> Cardinality(PostsOfAuthor(a)),
     totalViews |-> SumOver(PostsOfAuthor(a), [p \in PostsOfAuthor(a) |-> posts[p].views]),
     totalLikes |-> SumOver(PostsOfAuthor(a),
                            [p \in PostsOfAuthor(a) |-> Cardinality(posts[p].likes)])]

\* $lookup from users, then $unwind: a group with no user document yields no row.
JoinedAuthors == {a \in AuthorGroups : a \in DOMAIN users}

StatsRow(a) ==
    [_id |-> a,
     username |-> users[a].username,
     postCount |-> GroupRow(a).postCount,
     totalViews |-> GroupRow(a).totalViews,
     totalLikes |-> GroupRow(a).totalLikes]

getAuthorStatistics ==
    /\ IF \E a \in JoinedAuthors : GroupRow(a).totalViews = 0
       THEN \* $divide of totalLikes by a totalViews of 0 fails the aggregation
            ret' = Threw("getAuthorStatistics", "can't $divide by zero")
       ELSE \E order \in DescOrders(JoinedAuthors,
                                    [a \in JoinedAuthors |-> GroupRow(a).totalViews]) :
                ret' = Returned("getAuthorStatistics",
                                [i \in DOMAIN order |-> StatsRow(order[i])])
    /\ UNCHANGED <<users, posts, comments, now, pc, fetched, calls, db>>

(***************************************************************************)
(* Spec: the post collection and the view counter.                         *)
(***************************************************************************)
Next ==
    \/ Tick
    \/ \E t \in Titles, s \in SlugInputs, st \in StatusInputs, a \in {1},
          cs \in CategoryInputs, ts \in TagInputs :
            createPost(t, s, st, a, cs, ts)
    \/ \E p \in PostIds : publishPost(p)
    \/ \E c \in Calls, s \in SlugQueries : getPostBySlugFind(c, s)
    \/ \E c \in Calls : getPostBySlugInc(c)

Spec == Init /\ [][Next]_vars

(***************************************************************************)
(* The view counter.                                                       *)
(***************************************************************************)
InitialViews(p) == IF p \in DOMAIN SeedPosts THEN SeedPosts[p].views ELSE 0

Incrementing(p) == {c \in Calls : pc[c] = "inc" /\ fetched[c].id = p}

\* C1: no view-count increment is lost. Whatever the interleaving of the
\* getPostBySlug calls, the stored views of a post is its initial count plus the
\* number of calls that found it and have applied their increment; so once the
\* N calls that found a post have all returned, views = v + N.
C1_NoLostViewIncrement ==
    \A p \in DOMAIN posts :
        posts[p].views = InitialViews(p) + calls[p] - Cardinality(Incrementing(p))

\* Every call found the seed post, one has returned and another still holds the
\* document it fetched before that increment.
C1_Witness ==
    /\ calls[1] = NumCalls
    /\ \E c, d \in Calls :
        /\ pc[c] = "done"
        /\ pc[d] = "inc"
        /\ fetched[d].views = InitialViews(1)
        /\ posts[1].views > InitialViews(1)

\* C2: publishedAt is set only by the first publish. Once a post has a
\* published date, no operation changes it.
C2_PublishedAtSetOnce ==
    [][\A p \in DOMAIN posts :
        posts[p].publishedAt # NoDate => posts'[p].publishedAt = posts[p].publishedAt]_vars

\* C3: the status moves only along draft -> published -> archived. An archived
\* post stays archived and a published post never becomes a draft again.
C3_StatusLifecycle ==
    [][\A p \in DOMAIN posts :
        /\ posts[p].status = ARCHIVED => posts'[p].status = ARCHIVED
        /\ posts[p].status = PUBLISHED => posts'[p].status # DRAFT]_vars

(***************************************************************************)
(* UserSpec: posts and users under the writers, and the statistics.        *)
(***************************************************************************)
UserNext ==
    \/ \E t \in Titles, s \in SlugInputs, st \in StatusInputs, a \in UserIds,
          cs \in CategoryInputs, ts \in TagInputs :
            createPost(t, s, st, a, cs, ts)
    \/ \E p \in PostIds : publishPost(p)
    \/ \E u \in UserIds : hardDeleteUser(u)
    \/ getAuthorStatistics

UserSpec == Init /\ [][UserNext]_vars

\* C10: getAuthorStatistics returns exactly one row for each author that has a
\* published post, whether or not the author's user record still exists, and
\* the row's postCount, totalViews and totalLikes are the count, the sum of views
\* and the sum of likes.length over that author's published posts.
C10_AuthorStatistics ==
    (ret.op = "getAuthorStatistics" /\ ret.err = "none") =>
        /\ NoDup([i \in DOMAIN ret.val |-> ret.val[i]._id])
        /\ {ret.val[i]._id : i \in DOMAIN ret.val} =
                {posts[p].author : p \in PublishedPosts}
        /\ \A i \in DOMAIN ret.val :
            LET mine == {p \in PublishedPosts : posts[p].author = ret.val[i]._id}
            IN  /\ ret.val[i].postCount = Cardinality(mine)
                /\ ret.val[i].totalViews = SumOver(mine, [p \in mine |-> posts[p].views])
                /\ ret.val[i].totalLikes =
                        SumOver(mine, [p \in mine |-> Cardinality(posts[p].likes)])

(***************************************************************************)
(* BlogService.addComment. Neither the post nor the parent comment is      *)
(* looked up: the ids are stored as given.                                 *)
(***************************************************************************)
TrustThreshold == 5

\* Comment.countDocuments({ author, isApproved: true })
previousApprovedComments(authorId) ==
    Cardinality({c \in DOMAIN comments :
                    comments[c].author = authorId /\ comments[c].isApproved})

\* A comparison that already trusts an author at the threshold.
TrustedAtThreshold(count) == count >= TrustThreshold

\* previousApprovedComments > 5
Trusted(count) == count > TrustThreshold

IsTrusted(authorId) == Trusted(previousApprovedComments(authorId))

addComment(postId, authorId, parentCommentId) ==
    LET id == Len(comments) + 1
    IN  /\ comments' = Append(comments,
                [post |-> postId, author |-> authorId,
                 parentComment |-> parentCommentId,
                 isApproved |-> IsTrusted(authorId),
                 createdAt |-> now])
        /\ ret' = Returned("addComment", id)
        /\ UNCHANGED <<users, posts, now, pc, fetched, calls, db>>

(***************************************************************************)
(* PostService.getPostWithComments. The replies virtual is populated with  *)
(* one query over all the returned top-level comments: it is sorted, cut   *)
(* to limit * (number of top-level documents), and what it returns is      *)
(* dealt to the parents, each keeping at most limit of them.               *)
(***************************************************************************)
TopLevelLimit == 50
RepliesLimit == 50

\* Comment.find({ post, isApproved: true, parentComment: null })
TopLevelFilter(c, postId) ==
    /\ comments[c].post = postId
    /\ comments[c].isApproved
    /\ comments[c].parentComment = NoId

\* The replies populated with no match condition.
ReplyMatchAll(c) == TRUE

\* populate('replies') match: { isApproved: true }
ReplyMatch(c) == comments[c].isApproved

CreatedAt == [c \in DOMAIN comments |-> comments[c].createdAt]

\* The replies query for the top-level documents in top, in the order found.
RepliesFound(top) ==
    LET pool == {c \in DOMAIN comments :
                    comments[c].parentComment \in Range(top) /\ ReplyMatch(c)}
    IN  {Take(order, RepliesLimit * Len(top)) : order \in AscOrders(pool, CreatedAt)}

\* The replies assigned to top-level comment t out of those found.
RepliesOf(t, found) ==
    LET Mine(c) == comments[c].parentComment = t
    IN  Take(SelectSeq(found, Mine), RepliesLimit)

getPostWithComments(postId) ==
    /\ IF postId \notin DOMAIN posts
       THEN ret' = Returned("getPostWithComments",
                            [postId |-> postId, post |-> NoId, comments |-> <<>>])
       ELSE \E order \in DescOrders({c \in DOMAIN comments : TopLevelFilter(c, postId)},
                                    CreatedAt) :
            LET top == Take(order, TopLevelLimit)
            IN  \E found \in RepliesFound(top) :
                    ret' = Returned("getPostWithComments",
                            [postId |-> postId, post |-> postId,
                             comments |-> [i \in DOMAIN top |->
                                [id |-> top[i], replies |-> RepliesOf(top[i], found)]]])
    /\ UNCHANGED <<users, posts, comments, now, pc, fetched, calls, db>>

(***************************************************************************)
(* CommentSpec: the comment collection under addComment, starting from a   *)
(* store in which user 1 has 0, TrustThreshold or TrustThreshold + 1       *)
(* approved comments on the seed post.                                     *)
(***************************************************************************)
SeedApproved == {0, TrustThreshold, TrustThreshold + 1}

SeedComments(n) ==
    [i \in 1..n |-> [post |-> 1, author |-> 1, parentComment |-> NoId,
                     isApproved |-> TRUE, createdAt |-> i - n - 1]]

CommentPosts ==
    SeedPosts @@
    (2 :> [title |-> <<"c">>, slug |-> <<"c">>, author |-> 2,
           status |-> PUBLISHED, publishedAt |-> 0,
           categories |-> {"Database"}, tags |-> {},
           featuredImage |-> NULL, views |-> 0, likes |-> {}])

\* The parent ids a caller names: none, the first comment of the store, and the
\* first comment added to a store of TrustThreshold + 1 seeds.
ParentInputs == {NoId, 1, TrustThreshold + 2}

CommentInit ==
    /\ users = SeedUsers
    /\ posts = CommentPosts
    /\ \E n \in SeedApproved : comments = SeedComments(n)
    /\ now = 0
    /\ pc = [c \in Calls |-> "start"]
    /\ fetched = [c \in Calls |-> NULL]
    /\ calls = [p \in PostIds |-> 0]
    /\ ret = NoReturn
    /\ db = Connected

AddedComments == {c \in DOMAIN comments : comments[c].createdAt >= 0}

CommentNext ==
    \/ \E p \in DOMAIN CommentPosts, a \in UserIds, parent \in ParentInputs :
        /\ Cardinality(AddedComments) < MaxComments
        /\ addComment(p, a, parent)
    \/ \E p \in PostIds : getPostWithComments(p)

CommentSpec == CommentInit /\ [][CommentNext]_vars

\* C6: every reply getPostWithComments(postId) returns under a top-level comment
\* belongs to post postId.
C6_RepliesBelongToPost ==
    ret.op = "getPostWithComments" =>
        \A i \in DOMAIN ret.val.comments :
            \A j \in DOMAIN ret.val.comments[i].replies :
                comments[ret.val.comments[i].replies[j]].post = ret.val.post

(***************************************************************************)
(* SearchService.searchPosts. A query is a record of the seven criteria.   *)
(* An absent text or author is the empty string, absent categories or tags *)
(* the empty list and an absent minViews 0, each of which the code treats  *)
(* as absent; an absent dateRange is NoRange and an absent hasImage NULL.  *)
(***************************************************************************)
NoRange == [start |-> NoDate, end |-> NoDate]

SearchLimit == 50
TitleWeight == 10

AlphaNum == LowerLetters \cup UpperLetters \cup Digits

\* A $regex the server can compile: of the characters modelled only "(" is a
\* metacharacter, and a pattern holding it is an unterminated group.
RegexValid(pattern) == "(" \notin Range(pattern)

\* { $regex: pattern, $options: 'i' } on a string field
RegexMatches(pattern, str) ==
    \E i \in 1..(Len(str) - Len(pattern) + 1) :
        SubSeq(toLowerCase(str), i, i + Len(pattern) - 1) = toLowerCase(pattern)

\* SearchService.findAuthorsByName
findAuthorsByName(name) ==
    {u \in DOMAIN users :
        \/ RegexMatches(name, users[u].firstName)
        \/ RegexMatches(name, users[u].lastName)
        \/ RegexMatches(name, users[u].username)}

\* The words of a string, as the text index sees them.
RECURSIVE WordsFrom(_, _)
WordsFrom(str, word) ==
    LET done == IF word = <<>> THEN {} ELSE {word}
    IN  IF str = <<>> THEN done
        ELSE IF Head(str) \in AlphaNum
             THEN WordsFrom(Tail(str), Append(word, Head(str)))
             ELSE done \cup WordsFrom(Tail(str), <<>>)

Words(str) == WordsFrom(toLowerCase(str), <<>>)

\* $text over the weighted index; of the indexed fields the model holds the title.
TextHits(p, text) == Words(text) \cap Words(posts[p].title)
TextScore(p, text) == TitleWeight * Cardinality(TextHits(p, text))

\* The search filter without its status condition.
SearchMatchesAnyStatus(p, q) ==
    /\ q.text # <<>> => TextHits(p, q.text) # {}
    /\ q.categories # {} => posts[p].categories \cap q.categories # {}
    /\ q.tags # {} => posts[p].tags \cap q.tags # {}
    /\ q.author # <<>> => posts[p].author \in findAuthorsByName(q.author)
    /\ q.dateRange # NoRange =>
            /\ posts[p].publishedAt >= q.dateRange.start
            /\ posts[p].publishedAt <= q.dateRange.end
    /\ q.minViews # 0 => posts[p].views >= q.minViews
    /\ q.hasImage = "true" => posts[p].featuredImage # NULL
    /\ q.hasImage = "false" => posts[p].featuredImage = NULL

\* searchQuery as built from the criteria, applied to post p.
SearchMatches(p, q) ==
    /\ posts[p].status = PUBLISHED
    /\ q.text # <<>> => TextHits(p, q.text) # {}
    /\ q.categories # {} => posts[p].categories \cap q.categories # {}
    /\ q.tags # {} => posts[p].tags \cap q.tags # {}
    /\ q.author # <<>> => posts[p].author \in findAuthorsByName(q.author)
    /\ q.dateRange # NoRange =>
            /\ posts[p].publishedAt >= q.dateRange.start
            /\ posts[p].publishedAt <= q.dateRange.end
    /\ q.minViews # 0 => posts[p].views >= q.minViews
    /\ q.hasImage = "true" => posts[p].featuredImage # NULL
    /\ q.hasImage = "false" => posts[p].featuredImage = NULL

PublishedAt == [p \in DOMAIN posts |-> posts[p].publishedAt]

\* sortOptions: publishedAt descending, after the text score when text is given.
SearchSortKey(S, q) ==
    IF q.text # <<>>
    THEN LET span == 1 + (IF S = {} THEN 0 ELSE MaxKey(S, PublishedAt))
         IN  [p \in S |-> TextScore(p, q.text) * span + posts[p].publishedAt]
    ELSE [p \in S |-> posts[p].publishedAt]

searchPosts(q) ==
    /\ IF q.author # <<>> /\ ~RegexValid(q.author)
       THEN ret' = [op |-> "searchPosts", err |-> "Regular expression is invalid",
                    val |-> [q |-> q, posts |-> <<>>]]
       ELSE LET S == {p \in DOMAIN posts : SearchMatches(p, q)}
            IN  \E order \in DescOrders(S, SearchSortKey(S, q)) :
                    ret' = Returned("searchPosts",
                                    [q |-> q, posts |-> Take(order, SearchLimit)])
    /\ UNCHANGED <<users, posts, comments, now, pc, fetched, calls, db>>

(***************************************************************************)
(* SearchService.findSimilarPosts. A limit of 0 is no limit to the store.  *)
(***************************************************************************)
\* The similarity filter without { _id: { $ne: postId } }.
SimilarMatchesWithSelf(p, postId) ==
    /\ posts[p].status = PUBLISHED
    /\ \/ posts[p].categories \cap posts[postId].categories # {}
       \/ posts[p].tags \cap posts[postId].tags # {}

SimilarMatches(p, postId) ==
    /\ p # postId
    /\ posts[p].status = PUBLISHED
    /\ \/ posts[p].categories \cap posts[postId].categories # {}
       \/ posts[p].tags \cap posts[postId].tags # {}

\* cursor.limit(n)
Limit(s, n) == IF n = 0 THEN s ELSE Take(s, n)

findSimilarPosts(postId, limit) ==
    /\ IF postId \notin DOMAIN posts
       THEN ret' = Returned("findSimilarPosts",
                            [postId |-> postId, limit |-> limit, posts |-> <<>>])
       ELSE \E order \in DescOrders({p \in DOMAIN posts : SimilarMatches(p, postId)},
                                    PublishedAt) :
                ret' = Returned("findSimilarPosts",
                                [postId |-> postId, limit |-> limit,
                                 posts |-> Limit(order, limit)])
    /\ UNCHANGED <<users, posts, comments, now, pc, fetched, calls, db>>

(***************************************************************************)
(* SearchSpec: searchPosts and findSimilarPosts over a family of stores:   *)
(* up to MaxSeedPosts posts, each of one of the PostShapes, with both      *)
(* users registered or user 1 hard-deleted; and a store of more published  *)
(* posts than the search returns.                                          *)
(***************************************************************************)
MaxSeedPosts == 2

PostShapes ==
    << [title |-> <<"a", " ", "b">>, author |-> 1, status |-> PUBLISHED,
        publishedAt |-> 1, categories |-> {"Technology"}, tags |-> {"mongodb"},
        featuredImage |-> "https://x/i.png", views |-> 10, likes |-> {2}],
       [title |-> <<"b">>, author |-> 2, status |-> PUBLISHED,
        publishedAt |-> 2, categories |-> {"Technology", "Database"}, tags |-> {},
        featuredImage |-> NULL, views |-> 0, likes |-> {}],
       [title |-> <<"A">>, author |-> 1, status |-> PUBLISHED,
        publishedAt |-> 2, categories |-> {"Database"}, tags |-> {"mongodb"},
        featuredImage |-> NULL, views |-> 10, likes |-> {}],
       [title |-> <<"a">>, author |-> 1, status |-> DRAFT,
        publishedAt |-> NoDate, categories |-> {"Technology"}, tags |-> {"mongodb"},
        featuredImage |-> NULL, views |-> 0, likes |-> {}],
       [title |-> <<"a", " ", "c">>, author |-> 2, status |-> ARCHIVED,
        publishedAt |-> 1, categories |-> {"Technology"}, tags |-> {"mongodb"},
        featuredImage |-> "https://x/i.png", views |-> 10, likes |-> {1}],
       [title |-> <<"c">>, author |-> 2, status |-> PUBLISHED,
        publishedAt |-> 1, categories |-> {"Travel"}, tags |-> {"nosql"},
        featuredImage |-> NULL, views |-> 0, likes |-> {}] >>

\* The slug of the i-th post of a store: i times "s".
SlugOfId(i) == [j \in 1..i |-> "s"]

WithSlug(shape, i) ==
    [title |-> shape.title, slug |-> SlugOfId(i), author |-> shape.author,
     status |-> shape.status, publishedAt |-> shape.publishedAt,
     categories |-> shape.categories, tags |-> shape.tags,
     featuredImage |-> shape.featuredImage, views |-> shape.views,
     likes |-> shape.likes]

PostStores ==
    UNION {{[i \in 1..n |-> WithSlug(PostShapes[pick[i]], i)] :
                pick \in [1..n -> DOMAIN PostShapes]} : n \in 0..MaxSeedPosts}

\* n published posts of one category, published at 1, 2, ..., n.
BulkPosts(n) ==
    [i \in 1..n |->
        [title |-> <<"a">>, slug |-> SlugOfId(i), author |-> 1,
         status |-> PUBLISHED, publishedAt |-> i,
         categories |-> {"Technology"}, tags |-> {"mongodb"},
         featuredImage |-> NULL, views |-> 10, likes |-> {}]]

UserStores == {SeedUsers, [u \in {2} |-> SeedUsers[u]]}

TextInputs == {<<>>, <<"a">>}
\* {} is both no categories criterion and the empty list: the code makes no
\* filter of either.
CategoryQueries == {{}, {"Technology"}, {"Technology", "Database"}}
TagQueries == {{}, {"mongodb"}}
AuthorInputs == {<<>>, <<"C">>, <<"c", "c">>, <<"(">>}
DateRangeInputs == {NoRange, [start |-> 2, end |-> 2]}
MinViewsInputs == {0, 10}
HasImageInputs == {NULL, "true", "false"}

SearchQueries ==
    [text : TextInputs, categories : CategoryQueries, tags : TagQueries,
     author : AuthorInputs, dateRange : DateRangeInputs,
     minViews : MinViewsInputs, hasImage : HasImageInputs]

SimilarLimits == {0, 1, 2}

SearchInit ==
    /\ \/ users \in UserStores /\ posts \in PostStores
       \/ users = SeedUsers /\ posts = BulkPosts(SearchLimit + 2)
    /\ comments = <<>>
    /\ now = 0
    /\ pc = [c \in Calls |-> "start"]
    /\ fetched = [c \in Calls |-> NULL]
    /\ calls = [p \in PostIds |-> 0]
    /\ ret = NoReturn
    /\ db = Connected

\* One query per behaviour: a query writes nothing, so a query asked after
\* another is a first query from the same store.
SearchNext ==
    \/ ret = NoReturn /\ \E q \in SearchQueries : searchPosts(q)
    \/ ret = NoReturn /\ \E p \in PostIds, limit \in SimilarLimits :
                            findSimilarPosts(p, limit)

SearchSpec == SearchInit /\ [][SearchNext]_vars

\* A searchPosts call with no criterion but categories.
OnlyCategories(q) ==
    /\ q.text = <<>>
    /\ q.tags = {}
    /\ q.author = <<>>
    /\ q.dateRange = NoRange
    /\ q.minViews = 0
    /\ q.hasImage = NULL

PublishedInCategories(C) ==
    {p \in DOMAIN posts : posts[p].status = PUBLISHED /\ posts[p].categories \cap C # {}}

\* C7 as stated: searchPosts with only categories = C returns exactly the
\* published posts whose category set intersects C, in descending publishedAt
\* order, and never more than SearchLimit of them.
C7_CategorySearchExact ==
    (ret.op = "searchPosts" /\ OnlyCategories(ret.val.q)) =>
        /\ NoDup(ret.val.posts)
        /\ Range(ret.val.posts) = PublishedInCategories(ret.val.q.categories)
        /\ IsDesc(ret.val.posts, PublishedAt)
        /\ Len(ret.val.posts) <= SearchLimit

\* C7 (amended): searchPosts with only a non-empty categories = C returns
\* published posts whose category set intersects C and no other post, in
\* descending publishedAt order: all of them when at most SearchLimit match,
\* and otherwise SearchLimit of them, none published before a post left out.
C7_CategorySearch ==
    (ret.op = "searchPosts" /\ OnlyCategories(ret.val.q) /\ ret.val.q.categories # {}) =>
        LET M == PublishedInCategories(ret.val.q.categories)
            R == Range(ret.val.posts)
        IN  /\ NoDup(ret.val.posts)
            /\ R \subseteq M
            /\ IsDesc(ret.val.posts, PublishedAt)
            /\ Len(ret.val.posts) = Min(Cardinality(M), SearchLimit)
            /\ \A p \in M \ R : \A r \in R : posts[p].publishedAt <= posts[r].publishedAt

\* A category search over more matching posts than the limit.
C7_WitnessCapped ==
    /\ ret.op = "searchPosts"
    /\ OnlyCategories(ret.val.q)
    /\ ret.val.q.categories # {}
    /\ Len(ret.val.posts) = SearchLimit
    /\ Cardinality(PublishedInCategories(ret.val.q.categories)) > SearchLimit

\* C8: a searchPosts call whose author criterion matches no user returns the
\* empty sequence and does not raise, whatever the other criteria.
C8_NoAuthorMatchIsEmpty ==
    (/\ ret.op = "searchPosts"
     /\ ret.val.q.author # <<>>
     /\ findAuthorsByName(ret.val.q.author) = {}) =>
        /\ ret.err = "none"
        /\ ret.val.posts = <<>>

SimilarTo(postId) ==
    {p \in DOMAIN posts :
        /\ posts[p].status = PUBLISHED
        /\ \/ posts[p].categories \cap posts[postId].categories # {}
           \/ posts[p].tags \cap posts[postId].tags # {}}

\* What C9 says of a findSimilarPosts result, apart from its length.
SimilarResultOk(r) ==
    /\ r.postId \notin Range(r.posts)
    /\ NoDup(r.posts)
    /\ IsDesc(r.posts, PublishedAt)
    /\ r.postId \notin DOMAIN posts => r.posts = <<>>
    /\ r.postId \in DOMAIN posts => Range(r.posts) \subseteq SimilarTo(r.postId)

\* C9 as stated: for every limit the result holds at most limit posts.
C9_SimilarPostsAnyLimit ==
    ret.op = "findSimilarPosts" =>
        /\ SimilarResultOk(ret.val)
        /\ Len(ret.val.posts) <= ret.val.limit

\* C9 (amended): findSimilarPosts(postId, limit) never contains postId, holds
\* only published posts sharing a category or a tag with it, in descending
\* publishedAt order, is empty when postId does not exist, and holds at most
\* limit posts when limit >= 1.
C9_SimilarPosts ==
    ret.op = "findSimilarPosts" =>
        /\ SimilarResultOk(ret.val)
        /\ ret.val.limit >= 1 => Len(ret.val.posts) <= ret.val.limit

\* The source post is published and similar posts were cut to the limit.
C9_Witness ==
    /\ ret.op = "findSimilarPosts"
    /\ ret.val.postId \in DOMAIN posts
    /\ posts[ret.val.postId].status = PUBLISHED
    /\ ret.val.limit >= 1
    /\ Len(ret.val.posts) = ret.val.limit
    /\ Cardinality(SimilarTo(ret.val.postId) \ {ret.val.postId}) > ret.val.limit

(***************************************************************************)
(* ThreadSpec: one getPostWithComments call over every comment collection  *)
(* of at most MaxSeedComments comments, each on one of two posts, top      *)
(* level or a reply to one of the first two comments, approved or not,    *)
(* and over two collections that exceed the limits.                        *)
(***************************************************************************)
MaxSeedComments == 4

\* The comments of a collection that later comments reply to.
ReplyTargets == {1, 2}

\* What varies from one comment of a collection to another.
CommentShapes ==
    [post : DOMAIN CommentPosts,
     parentComment : {NoId} \cup ReplyTargets,
     isApproved : BOOLEAN]

\* A reply is made to a comment that exists already.
RepliesToEarlier(shapes) ==
    \A i \in DOMAIN shapes :
        shapes[i].parentComment = NoId \/ shapes[i].parentComment < i

\* The collection of the given shapes; comment i is created at time i.
CommentStore(shapes) ==
    [i \in DOMAIN shapes |->
        [post |-> shapes[i].post, author |-> 1,
         parentComment |-> shapes[i].parentComment,
         isApproved |-> shapes[i].isApproved, createdAt |-> i]]

\* TopLevelLimit + 1 approved top-level comments on post 1.
BulkTopLevel ==
    [i \in 1 .. TopLevelLimit + 1 |->
        [post |-> 1, author |-> 1, parentComment |-> NoId,
         isApproved |-> TRUE, createdAt |-> i]]

\* Two approved top-level comments on post 1: comment 1 with 2 * RepliesLimit
\* approved replies, and comment 2 with one approved reply made after those.
BulkReplies ==
    [i \in 1 .. 2 * RepliesLimit + 3 |->
        [post |-> 1, author |-> 1,
         parentComment |-> IF i <= 2 THEN NoId
                           ELSE IF i = 2 * RepliesLimit + 3 THEN 2 ELSE 1,
         isApproved |-> TRUE, createdAt |-> i]]

ThreadInit ==
    /\ users = SeedUsers
    /\ posts = CommentPosts
    /\ \/ \E n \in 0 .. MaxSeedComments : \E shapes \in [1 .. n -> CommentShapes] :
            /\ RepliesToEarlier(shapes)
            /\ comments = CommentStore(shapes)
       \/ comments \in {BulkTopLevel, BulkReplies}
    /\ now = 0
    /\ pc = [c \in Calls |-> "start"]
    /\ fetched = [c \in Calls |-> NULL]
    /\ calls = [p \in PostIds |-> 0]
    /\ ret = NoReturn
    /\ db = Connected

ThreadNext ==
    ret = NoReturn /\ \E p \in PostIds : getPostWithComments(p)

ThreadSpec == ThreadInit /\ [][ThreadNext]_vars

\* C4: getPostWithComments never returns an unapproved comment, neither among
\* the top-level comments nor among the replies attached to them.
C4_OnlyApprovedReturned ==
    ret.op = "getPostWithComments" =>
        \A i \in DOMAIN ret.val.comments :
            /\ comments[ret.val.comments[i].id].isApproved
            /\ \A j \in DOMAIN ret.val.comments[i].replies :
                    comments[ret.val.comments[i].replies[j]].isApproved

\* A thread came back with a reply while the collection holds an unapproved
\* top-level comment of the post and an unapproved reply to the returned
\* top-level comment.
C4_Witness ==
    /\ ret.op = "getPostWithComments"
    /\ \E i \in DOMAIN ret.val.comments :
        /\ ret.val.comments[i].replies # <<>>
        /\ \E c \in DOMAIN comments :
            /\ comments[c].parentComment = ret.val.comments[i].id
            /\ ~comments[c].isApproved
    /\ \E c \in DOMAIN comments :
        /\ comments[c].post = ret.val.post
        /\ comments[c].parentComment = NoId
        /\ ~comments[c].isApproved

\* The approved direct replies of top-level comment t.
OwnReplies(t) ==
    {c \in DOMAIN comments : comments[c].parentComment = t /\ comments[c].isApproved}

\* C5: getPostWithComments returns at most TopLevelLimit top-level comments
\* in descending creation order, and each of them carries its own approved
\* direct replies in ascending creation order, up to RepliesLimit of them,
\* however many other top-level comments are returned.
C5_ThreadCaps ==
    ret.op = "getPostWithComments" =>
        LET top == [i \in DOMAIN ret.val.comments |-> ret.val.comments[i].id]
        IN  /\ Len(top) <= TopLevelLimit
            /\ IsDesc(top, CreatedAt)
            /\ \A i \in DOMAIN top :
                LET replies == ret.val.comments[i].replies
                IN  /\ NoDup(replies)
                    /\ Range(replies) \subseteq OwnReplies(top[i])
                    /\ IsAsc(replies, CreatedAt)
                    /\ Len(replies) = Min(Cardinality(OwnReplies(top[i])), RepliesLimit)

(***************************************************************************)
(* SearchService.getPopularPostsThisWeek. The clock counts days.           *)
(***************************************************************************)
WeekDays == 7
ViewWeight == 1
LikeWeight == 5
PopularLimit == 10

\* $match: { status: published, publishedAt: { $gte: weekAgo } }
PopularMatch(p) ==
    /\ posts[p].status = PUBLISHED
    /\ posts[p].publishedAt >= now - WeekDays

\* $addFields likesCount: { $size: '$likes' } and the $project of the score
EngagementScore ==
    [p \in DOMAIN posts |->
        posts[p].views * ViewWeight + Cardinality(posts[p].likes) * LikeWeight]

\* $lookup of the author followed by $unwind: '$author': a row whose author
\* has no user document is dropped.
AuthorJoined(p) == posts[p].author \in DOMAIN users

getPopularPostsThisWeek ==
    /\ \E order \in DescOrders({p \in DOMAIN posts : PopularMatch(p)}, EngagementScore) :
        LET top == Take(order, PopularLimit)
            joined == SelectSeq(top, AuthorJoined)
        IN  ret' = Returned("getPopularPostsThisWeek",
                    [i \in DOMAIN joined |->
                        [id |-> joined[i],
                         engagementScore |-> EngagementScore[joined[i]]]])
    /\ UNCHANGED <<users, posts, comments, now, pc, fetched, calls, db>>

(***************************************************************************)
(* PopularSpec: one getPopularPostsThisWeek call on day Today over stores  *)
(* of up to MaxPopularPosts posts of the PopularShapes, with both users    *)
(* registered or user 1 hard-deleted, and over a store of more eligible    *)
(* posts than the call returns.                                            *)
(***************************************************************************)
MaxPopularPosts == 2
Today == 10

PopularShapes ==
    << [title |-> <<"a">>, author |-> 1, status |-> PUBLISHED,
        publishedAt |-> Today - WeekDays, categories |-> {"Technology"}, tags |-> {},
        featuredImage |-> NULL, views |-> 100, likes |-> 1 .. 4],
       [title |-> <<"b">>, author |-> 2, status |-> PUBLISHED,
        publishedAt |-> Today, categories |-> {"Technology"}, tags |-> {},
        featuredImage |-> NULL, views |-> 80, likes |-> 1 .. 10],
       [title |-> <<"c">>, author |-> 2, status |-> PUBLISHED,
        publishedAt |-> Today - WeekDays - 1, categories |-> {"Technology"}, tags |-> {},
        featuredImage |-> NULL, views |-> 200, likes |-> {}],
       [title |-> <<"a">>, author |-> 2, status |-> PUBLISHED,
        publishedAt |-> Today - 1, categories |-> {"Technology"}, tags |-> {},
        featuredImage |-> NULL, views |-> 120, likes |-> {}],
       [title |-> <<"b">>, author |-> 2, status |-> DRAFT,
        publishedAt |-> NoDate, categories |-> {"Technology"}, tags |-> {},
        featuredImage |-> NULL, views |-> 300, likes |-> {}],
       [title |-> <<"c">>, author |-> 2, status |-> ARCHIVED,
        publishedAt |-> Today - 1, categories |-> {"Technology"}, tags |-> {},
        featuredImage |-> NULL, views |-> 300, likes |-> {1}] >>

\* n posts of user 2 published today, post i with i views.
BulkPopular(n) ==
    [i \in 1..n |->
        [title |-> <<"a">>, slug |-> SlugOfId(i), author |-> 2,
         status |-> PUBLISHED, publishedAt |-> Today,
         categories |-> {"Technology"}, tags |-> {},
         featuredImage |-> NULL, views |-> i, likes |-> {}]]

PopularInit ==
    /\ users \in UserStores
    /\ \/ \E n \in 0 .. MaxPopularPosts : \E pick \in [1 .. n -> DOMAIN PopularShapes] :
            posts = [i \in 1 .. n |-> WithSlug(PopularShapes[pick[i]], i)]
       \/ posts = BulkPopular(PopularLimit + 2)
    /\ comments = <<>>
    /\ now = Today
    /\ pc = [c \in Calls |-> "start"]
    /\ fetched = [c \in Calls |-> NULL]
    /\ calls = [p \in PostIds |-> 0]
    /\ ret = NoReturn
    /\ db = Connected

PopularNext ==
    ret = NoReturn /\ getPopularPostsThisWeek

PopularSpec == PopularInit /\ [][PopularNext]_vars

\* The published posts of the last WeekDays days.
EligiblePopular ==
    {p \in DOMAIN posts :
        /\ posts[p].status = PUBLISHED
        /\ posts[p].publishedAt >= now - WeekDays
        /\ posts[p].publishedAt <= now}

\* C11: getPopularPostsThisWeek returns the PopularLimit highest-scoring
\* published posts of the last WeekDays days (all of them when fewer are
\* eligible), with score = views * 1 + likesCount * 5, in descending score.
C11_PopularPosts ==
    ret.op = "getPopularPostsThisWeek" =>
        LET ids == [i \in DOMAIN ret.val |-> ret.val[i].id]
            R == Range(ids)
        IN  /\ NoDup(ids)
            /\ R \subseteq EligiblePopular
            /\ Len(ids) = Min(Cardinality(EligiblePopular), PopularLimit)
            /\ \A i \in DOMAIN ids :
                ret.val[i].engagementScore =
                    posts[ids[i]].views + 5 * Cardinality(posts[ids[i]].likes)
            /\ \A i \in 1 .. Len(ids) - 1 :
                ret.val[i].engagementScore >= ret.val[i + 1].engagementScore
            /\ \A p \in EligiblePopular \ R : \A i \in DOMAIN ids :
                EngagementScore[p] <= ret.val[i].engagementScore

(***************************************************************************)
(* LikesSpec: concurrent getPostBySlug calls on a published post liked by  *)
(* 0 .. LikesLimit + 1 registered users.                                   *)
(***************************************************************************)
LikeUsers ==
    [u \in 1 .. LikesLimit + 1 |->
        [firstName |-> <<"A">>, lastName |-> <<"b">>,
         username |-> [i \in 1 .. u |-> "a"], isActive |-> TRUE]]

LikedPost(n) ==
    [p \in {1} |-> [SeedPosts[1] EXCEPT !.likes = 1 .. n]]

LikesInit ==
    /\ users = LikeUsers
    /\ \E n \in 0 .. LikesLimit + 1 : posts = LikedPost(n)
    /\ comments = <<>>
    /\ now = 0
    /\ pc = [c \in Calls |-> "start"]
    /\ fetched = [c \in Calls |-> NULL]
    /\ calls = [p \in PostIds |-> 0]
    /\ ret = NoReturn
    /\ db = Connected

LikesNext ==
    \/ \E c \in Calls, slug \in SlugQueries : getPostBySlugFind(c, slug)
    \/ \E c \in Calls : getPostBySlugInc(c)

LikesSpec == LikesInit /\ [][LikesNext]_vars

\* C12: the like count of the post getPostBySlug returns equals the number of
\* users who liked the post, also for a post liked by more than LikesLimit
\* users.
C12_LikesCountIsFull ==
    (ret.op = "getPostBySlug" /\ ret.val.id # NoId) =>
        likesCount(ret.val) = Cardinality(posts[ret.val.id].likes)

(***************************************************************************)
(* UserService.createUser: a findOne for a user of the same email or       *)
(* username, then new User(userData).save().                               *)
(***************************************************************************)
MinUsernameLen == 3

\* The email path: lowercase: true, trim: true (applied to documents and to
\* query filters).
CastEmail(email) == toLowerCase(trim(email))

\* /^[^\s@]+@[^\s@]+\.[^\s@]+$/
EmailValid(email) ==
    /\ \A i \in DOMAIN email : email[i] \notin Whitespace
    /\ \E i \in DOMAIN email :
        /\ email[i] = "@"
        /\ i > 1
        /\ \A k \in DOMAIN email : email[k] = "@" => k = i
        /\ \E j \in DOMAIN email : email[j] = "." /\ j > i + 1 /\ j < Len(email)

\* /^[a-zA-Z0-9_]+$/ with minlength 3
UsernameValid(username) ==
    /\ Len(username) >= MinUsernameLen
    /\ \A i \in DOMAIN username : username[i] \in AlphaNum \cup {"_"}

\* new User(userData)
NewUser(userData) ==
    [email |-> CastEmail(userData.email), password |-> userData.password,
     firstName |-> trim(userData.firstName), lastName |-> trim(userData.lastName),
     username |-> userData.username, isActive |-> TRUE]

\* The validators of the paths createUser is given.
UserValid(doc) ==
    /\ EmailValid(doc.email)
    /\ UsernameValid(doc.username)
    /\ Len(doc.password) >= MinPasswordLen
    /\ doc.firstName # <<>>
    /\ doc.lastName # <<>>

\* unique: true on email and on username: the documents an insert or update
\* of doc under id collides with.
UniqueConflicts(id, doc) ==
    {u \in DOMAIN users \ {id} :
        users[u].email = doc.email \/ users[u].username = doc.username}

\* The filter names userName, which is no path of the schema. With
\* strictQuery on the condition is stripped to {}, which every user matches;
\* with strictQuery off it is sent as written and no user matches it.
ExistingUsers(userData, strictQuery) ==
    {u \in DOMAIN users : users[u].email = CastEmail(userData.email) \/ strictQuery}

createUserResult(userData, id, err) ==
    [op |-> "createUser", err |-> err, val |-> [userData |-> userData, id |-> id]]

createUserFind(c, userData) ==
    /\ pc[c] = "start"
    /\ \E strictQuery \in BOOLEAN :
        LET existing == ExistingUsers(userData, strictQuery)
        IN  IF existing # {}
            THEN \E existingUser \in existing :
                /\ ret' = createUserResult(userData, NoId,
                            IF users[existingUser].email = userData.email
                            THEN "Email already registered"
                            ELSE "Username already taken")
                /\ pc' = [pc EXCEPT ![c] = "done"]
                /\ fetched' = fetched
            ELSE /\ ret' = NoReturn
                 /\ pc' = [pc EXCEPT ![c] = "save"]
                 /\ fetched' = [fetched EXCEPT ![c] = userData]
    /\ UNCHANGED <<users, posts, comments, now, calls, db>>

createUserSave(c) ==
    /\ pc[c] = "save"
    /\ LET userData == fetched[c]
           user == NewUser(userData)
           id == Cardinality(DOMAIN users) + 1
       IN  IF ~UserValid(user)
           THEN /\ ret' = createUserResult(userData, NoId, "Validation failed")
                /\ users' = users
           ELSE IF UniqueConflicts(id, user) # {}
           THEN /\ ret' = createUserResult(userData, NoId, "E11000 duplicate key error")
                /\ users' = users
           ELSE /\ ret' = createUserResult(userData, id, "none")
                /\ users' = users @@ (id :> user)
    /\ pc' = [pc EXCEPT ![c] = "done"]
    /\ fetched' = [fetched EXCEPT ![c] = NULL]
    /\ UNCHANGED <<posts, comments, now, calls, db>>

(***************************************************************************)
(* AccountSpec: concurrent createUser calls on the seed store.             *)
(***************************************************************************)
EmailInputs ==
    {<<"a", "@", "b", ".", "c">>, <<"A", "@", "b", ".", "c">>, <<"c", "@", "b", ".", "c">>}
UsernameInputs == {<<"a", "b", "1">>, <<"c", "c", "c">>, <<"c">>}

UserInputs ==
    [email : EmailInputs, username : UsernameInputs, password : {PasswordOf("c")},
     firstName : {<<"C">>}, lastName : {<<"c">>}]

AccountNext ==
    \/ \E c \in Calls, userData \in UserInputs : createUserFind(c, userData)
    \/ \E c \in Calls : createUserSave(c)

AccountSpec == Init /\ [][AccountNext]_vars

ConflictErrors == {"Email already registered", "Username already taken"}

\* C13: no two users share an email or a username, and a createUser whose
\* email or username is held by another user fails with 'Email already
\* registered' or 'Username already taken', also under concurrent calls.
C13_UniqueUsers ==
    /\ \A u, v \in DOMAIN users :
        u # v => users[u].email # users[v].email /\ users[u].username # users[v].username
    /\ (/\ ret.op = "createUser"
        /\ \E u \in DOMAIN users \ {ret.val.id} :
            \/ users[u].email = CastEmail(ret.val.userData.email)
            \/ users[u].username = ret.val.userData.username)
            => ret.err \in ConflictErrors

(***************************************************************************)
(* UserService.updateUser, softDeleteUser and getUserByEmail. An update    *)
(* payload is a record of the fields it carries.                           *)
(***************************************************************************)
\* The payload with every field kept.
WholeUpdateData(updateData) == updateData

\* const { password, ...safeUpdateData } = updateData
safeUpdateData(updateData) ==
    [f \in DOMAIN updateData \ {"password"} |-> updateData[f]]

\* The update as cast to the schema: the setters of the paths it names.
CastUpdate(update) ==
    [f \in DOMAIN update |->
        CASE f = "email" -> CastEmail(update[f])
          [] f \in {"firstName", "lastName"} -> trim(update[f])
          [] OTHER -> update[f]]

\* runValidators: true: the validators of the paths the update names.
UpdateValid(update) ==
    /\ "email" \in DOMAIN update => EmailValid(update.email)
    /\ "username" \in DOMAIN update => UsernameValid(update.username)
    /\ "password" \in DOMAIN update => Len(update.password) >= MinPasswordLen

\* The document with the fields of the update set.
ApplyUpdate(doc, update) ==
    [f \in DOMAIN doc |-> IF f \in DOMAIN update THEN update[f] ELSE doc[f]]

updateUserResult(userId, updateData, err) ==
    [op |-> "updateUser", err |-> err,
     val |-> [id |-> userId, updateData |-> updateData]]

\* The update is validated before it is sent, and the unique indexes are
\* checked by the store when it writes the document.
updateUser(userId, updateData) ==
    /\ LET update == CastUpdate(safeUpdateData(updateData))
       IN  IF ~UpdateValid(update)
           THEN /\ users' = users
                /\ ret' = updateUserResult(userId, updateData, "Validation failed")
           ELSE IF UserNotFound(userId)
           THEN /\ users' = users
                /\ ret' = updateUserResult(userId, updateData, "User not found")
           ELSE IF UniqueConflicts(userId, ApplyUpdate(users[userId], update)) # {}
           THEN /\ users' = users
                /\ ret' = updateUserResult(userId, updateData,
                                           "E11000 duplicate key error")
           ELSE /\ users' = [u \in DOMAIN users |->
                                IF u = userId THEN ApplyUpdate(users[u], update)
                                ELSE users[u]]
                /\ ret' = updateUserResult(userId, updateData, "none")
    /\ UNCHANGED <<posts, comments, now, pc, fetched, calls, db>>

\* The update with isActive left as stored.
KeepActive(doc) == doc

\* { isActive: false }
Deactivate(doc) == [doc EXCEPT !.isActive = FALSE]

softDeleteUser(userId) ==
    /\ IF UserNotFound(userId)
       THEN /\ users' = users
            /\ ret' = UserResult("softDeleteUser", userId, "User not found")
       ELSE /\ users' = [u \in DOMAIN users |->
                            IF u = userId THEN Deactivate(users[u]) ELSE users[u]]
            /\ ret' = UserResult("softDeleteUser", userId, "none")
    /\ UNCHANGED <<posts, comments, now, pc, fetched, calls, db>>

\* User.findOne({ email: email.toLowerCase(), isActive: true }) over the
\* collection us: the ids of the documents it may resolve to.
ActiveUsersByEmail(us, email) ==
    {u \in DOMAIN us : us[u].email = CastEmail(toLowerCase(email)) /\ us[u].isActive}

getUserByEmail(email) ==
    /\ LET found == ActiveUsersByEmail(users, email)
       IN  IF found = {}
           THEN ret' = Returned("getUserByEmail", [email |-> email, id |-> NoId])
           ELSE \E u \in found :
                ret' = Returned("getUserByEmail", [email |-> email, id |-> u])
    /\ UNCHANGED <<users, posts, comments, now, pc, fetched, calls, db>>

(***************************************************************************)
(* ManageSpec: the seed store under updateUser, softDeleteUser,            *)
(* hardDeleteUser and getUserByEmail, with publishPost and the two post    *)
(* lookups, each called on ids that exist and on ids that do not.          *)
(***************************************************************************)
UserIdInputs == UserIds \cup {3}

UpdateInputs ==
    {<<>>,
     [password |-> PasswordOf("c")],
     [firstName |-> <<" ", "C">>, password |-> PasswordOf("c")],
     [email |-> <<"B", "@", "b", ".", "c">>],
     [username |-> <<"c">>]}

ManageNext ==
    \/ \E u \in UserIdInputs, updateData \in UpdateInputs : updateUser(u, updateData)
    \/ \E u \in UserIdInputs : softDeleteUser(u)
    \/ \E u \in UserIdInputs : hardDeleteUser(u)
    \/ \E email \in EmailInputs : getUserByEmail(email)
    \/ \E p \in PostIds : publishPost(p)
    \/ \E p \in PostIds : getPostWithComments(p)
    \/ \E c \in Calls, slug \in SlugQueries : getPostBySlugFind(c, slug)
    \/ \E c \in Calls : getPostBySlugInc(c)

ManageSpec == Init /\ [][ManageNext]_vars

\* C14: updateUser never changes a user's password, whatever the payload
\* carries: the stored password of every user is the same after every step.
C14_PasswordNeverUpdated ==
    [][\A u \in DOMAIN users :
        u \in DOMAIN users' => users'[u].password = users[u].password]_vars

\* An update whose payload carried another password went through and set
\* the first name.
C14_Witness ==
    /\ ret.op = "updateUser"
    /\ ret.err = "none"
    /\ "password" \in DOMAIN ret.val.updateData
    /\ "firstName" \in DOMAIN ret.val.updateData
    /\ ret.val.updateData.password # users[ret.val.id].password
    /\ users[ret.val.id].firstName = trim(ret.val.updateData.firstName)
    /\ users[ret.val.id].firstName # SeedUsers[ret.val.id].firstName

\* C15: across createPost, publishPost and getPostBySlug no post is removed
\* and no stored views count decreases; a count changes only in the step in
\* which a getPostBySlug call that found the post published applies its
\* increment, and that step adds exactly 1.
C15_ViewsMonotonic ==
    [][/\ \A p \in DOMAIN posts :
            /\ p \in DOMAIN posts'
            /\ posts'[p].views >= posts[p].views
            /\ posts'[p].views # posts[p].views =>
                \E c \in Calls :
                    pc[c] = "inc" /\ pc'[c] = "done" /\ fetched[c].id = p
       /\ \A c \in Calls :
            (pc[c] = "inc" /\ pc'[c] = "done") =>
                posts'[fetched[c].id].views = posts[fetched[c].id].views + 1]_vars

\* Every call has counted its view of the seed post, a second post was
\* created and a post was published again meanwhile.
C15_Witness ==
    /\ posts[1].views = InitialViews(1) + NumCalls
    /\ Cardinality(DOMAIN posts) > 1
    /\ \E p \in DOMAIN posts : posts[p].status = PUBLISHED /\ posts[p].publishedAt > 0
    /\ \A c \in Calls : pc[c] = "done"

UserWriters == {"updateUser", "softDeleteUser", "hardDeleteUser"}

\* The first two parts of C16: after a successful softDeleteUser the record
\* exists with isActive = false and no getUserByEmail for its email finds it;
\* after a successful hardDeleteUser no record has the id.
DeleteOutcome ==
    /\ (ret'.op = "softDeleteUser" /\ ret'.err = "none") =>
        /\ ret'.val.id \in DOMAIN users'
        /\ ~users'[ret'.val.id].isActive
        /\ ActiveUsersByEmail(users', users'[ret'.val.id].email) = {}
    /\ (ret'.op = "hardDeleteUser" /\ ret'.err = "none") =>
        ret'.val.id \notin DOMAIN users'

\* The call of this step is a UserService write on a hard-deleted user.
OnHardDeleted ==
    /\ ret'.op \in UserWriters
    /\ ret'.val.id \in DOMAIN SeedUsers
    /\ ret'.val.id \notin DOMAIN users

\* C16 as stated: every further updateUser, softDeleteUser or hardDeleteUser
\* on a hard-deleted id fails with 'User not found'.
C16_DeletedUserAnyPayload ==
    [][/\ DeleteOutcome
       /\ OnHardDeleted => ret'.err = "User not found"]_vars

\* The update of a call result passes the validators of the user schema.
PayloadValid(r) == UpdateValid(CastUpdate(safeUpdateData(r.val.updateData)))

\* C16 (amended): after a successful softDeleteUser the record exists with
\* isActive = false and getUserByEmail for its email returns null; after a
\* successful hardDeleteUser no record has the id, and a further
\* softDeleteUser, hardDeleteUser or updateUser with a payload that passes
\* validation on that id fails with 'User not found' (an updateUser with an
\* invalid payload fails with the validation error).
C16_DeletedUser ==
    [][/\ DeleteOutcome
       /\ OnHardDeleted =>
            /\ users' = users
            /\ ret'.err = IF ret'.op = "updateUser" /\ ~PayloadValid(ret')
                          THEN "Validation failed"
                          ELSE "User not found"]_vars

\* One seed user is soft-deleted, hidden from getUserByEmail, and a valid
\* update of the other, hard-deleted, seed user has just failed.
C16_Witness ==
    /\ ret.op = "updateUser"
    /\ ret.err = "User not found"
    /\ ret.val.id \in DOMAIN SeedUsers \ DOMAIN users
    /\ \E u \in DOMAIN users :
        /\ ~users[u].isActive
        /\ ActiveUsersByEmail(users, users[u].email) = {}

UnchangedCollections == users' = users /\ posts' = posts /\ comments' = comments

\* What C17 says of publishPost and of the two lookups.
PostNotFoundOutcome ==
    /\ (ret'.op = "publishPost" /\ ret'.val \notin DOMAIN posts) =>
        ret'.err = "Post not found" /\ UnchangedCollections
    /\ (ret'.op = "getPostWithComments" /\ ret'.val.postId \notin DOMAIN posts) =>
        /\ ret'.err = "none"
        /\ ret'.val.post = NoId
        /\ ret'.val.comments = <<>>
        /\ UnchangedCollections
    /\ \A c \in Calls :
        /\ (pc[c] = "start" /\ pc'[c] = "done") =>
            /\ ret'.op = "getPostBySlug"
            /\ ret'.err = "none"
            /\ ret'.val.id = NoId
            /\ FindPublishedBySlug(ret'.val.slug) = {}
            /\ UnchangedCollections
        /\ (pc[c] = "start" /\ pc'[c] = "inc") =>
            fetched'[c].id \in DOMAIN posts

\* The call of this step is a UserService write on an id with no record.
OnMissingUser ==
    /\ ret'.op \in UserWriters
    /\ ret'.val.id \notin DOMAIN users

\* C17 as stated: updateUser, softDeleteUser, hardDeleteUser and publishPost
\* on an id with no record fail with a not-found error and change no
\* collection; getPostWithComments and getPostBySlug on a missing post
\* return null/empty without an error.
C17_NotFoundAnyPayload ==
    [][/\ PostNotFoundOutcome
       /\ OnMissingUser => ret'.err = "User not found" /\ UnchangedCollections]_vars

\* C17 (amended): as stated, for an updateUser whose payload passes
\* validation; an updateUser with an invalid payload fails with the
\* validation error, on a missing id too, and changes no collection.
C17_NotFound ==
    [][/\ PostNotFoundOutcome
       /\ OnMissingUser =>
            /\ UnchangedCollections
            /\ ret'.err = IF ret'.op = "updateUser" /\ ~PayloadValid(ret')
                          THEN "Validation failed"
                          ELSE "User not found"]_vars

\* A softDeleteUser on an id that never had a record has just failed, in a
\* store from which a seed user was hard-deleted earlier.
C17_Witness ==
    /\ ret.op = "softDeleteUser"
    /\ ret.err = "User not found"
    /\ ret.val.id \notin DOMAIN SeedUsers
    /\ DOMAIN users # DOMAIN SeedUsers

(***************************************************************************)
(* PostSchema.methods.calculateReadTime, as the pre('save') hook stores    *)
(* it for a document whose content is new.                                 *)
(***************************************************************************)
wordsPerMinute == 200

\* content.split(/\s+/).length: one more than the number of maximal runs of
\* whitespace, so a run at either end of the content adds an empty piece.
SplitLength(content) ==
    1 + Cardinality({i \in DOMAIN content :
                        /\ content[i] \in Whitespace
                        /\ i = 1 \/ content[i - 1] \notin Whitespace})

\* The quotient rounded down instead of up.
FloorDiv(a, b) == a \div b

\* Math.ceil(a / b) for a >= 0, b > 0
Ceil(a, b) == (a + b - 1) \div b

\* Math.ceil(wordCount / wordsPerMinute) || 1
calculateReadTime(content) ==
    LET minutes == Ceil(SplitLength(content), wordsPerMinute)
    IN  IF minutes = 0 THEN 1 ELSE minutes

(***************************************************************************)
(* DeriveSpec: the derived fields of a post. One call of createPost, of     *)
(* either slug derivation or of the read-time calculation, over every      *)
(* title of at most MaxTitleLen characters of TitleAlphabet and over       *)
(* contents of a few words and of about wordsPerMinute words and more.     *)
(***************************************************************************)
MaxTitleLen == 4

TitleAlphabet == {"a", "A", "1", " ", "\t", "-", "!"}

TitleStrings == UNION {[1 .. n -> TitleAlphabet] : n \in 0 .. MaxTitleLen}

\* n words "a", one space between two words, lead spaces before the first
\* and trail after the last.
WordsContent(lead, n, trail) ==
    [i \in 1 .. lead + 2 * n - 1 + trail |->
        IF i <= lead \/ i > lead + 2 * n - 1 \/ (i - lead) % 2 = 0 THEN " " ELSE "a"]

WordCounts == {1, 2, wordsPerMinute - 1, wordsPerMinute, wordsPerMinute + 1,
               2 * wordsPerMinute, 2 * wordsPerMinute + 50}

ContentInputs ==
    {WordsContent(lead, n, trail) : lead \in {0, 1}, n \in WordCounts, trail \in {0, 2}}
    \cup {<<"a", "\t", " ", "a">>}

DeriveNext ==
    \/ ret = NoReturn /\ \E t \in TitleStrings, s \in SlugInputs, st \in StatusInputs :
                            createPost(t, s, st, 1, {"Technology"}, {})
    \/ ret = NoReturn /\ \E t \in TitleStrings :
            /\ ret' = Returned("generateSlug", [title |-> t, slug |-> generateSlug(t)])
            /\ UNCHANGED <<users, posts, comments, now, pc, fetched, calls, db>>
    \/ ret = NoReturn /\ \E t \in TitleStrings :
            /\ ret' = Returned("generateSlugFromTitle",
                               [title |-> t, slug |-> generateSlugFromTitle(t)])
            /\ UNCHANGED <<users, posts, comments, now, pc, fetched, calls, db>>
    \/ ret = NoReturn /\ \E content \in ContentInputs :
            /\ ret' = Returned("calculateReadTime",
                               [content |-> content,
                                readTime |-> calculateReadTime(content)])
            /\ UNCHANGED <<users, posts, comments, now, pc, fetched, calls, db>>

DeriveSpec == Init /\ [][DeriveNext]_vars

\* C18: both slug derivations are idempotent: applied to its own result,
\* each returns that result.
C18_SlugifyIdempotent ==
    /\ ret.op = "generateSlug" => generateSlug(ret.val.slug) = ret.val.slug
    /\ ret.op = "generateSlugFromTitle" =>
            generateSlugFromTitle(ret.val.slug) = ret.val.slug

\* A title with upper case, whitespace, a hyphen run and a removed character
\* was slugified to something else than itself.
C18_Witness ==
    /\ ret.op \in {"generateSlug", "generateSlugFromTitle"}
    /\ ret.val.slug # ret.val.title
    /\ \E i \in DOMAIN ret.val.title : ret.val.title[i] \in Whitespace
    /\ \E i \in DOMAIN ret.val.title : ret.val.title[i] = "-"
    /\ \E i \in DOMAIN ret.val.title : ret.val.title[i] = "A"
    /\ \E i \in DOMAIN ret.val.slug : ret.val.slug[i] = "-"

\* Trim of leading and trailing hyphens and whitespace.
RECURSIVE TrimHyphens(_)
TrimHyphens(s) ==
    IF s # <<>> /\ Head(s) \in Whitespace \cup {"-"} THEN TrimHyphens(Tail(s))
    ELSE IF s # <<>> /\ s[Len(s)] \in Whitespace \cup {"-"}
         THEN TrimHyphens(SubSeq(s, 1, Len(s) - 1))
         ELSE s

\* The slugification algorithm as C19 states it.
Slugify(title) ==
    TrimHyphens(
        ReplaceRuns(
            ReplaceRuns(
                Filter(toLowerCase(title),
                       LowerLetters \cup Digits \cup Whitespace \cup {"-"}),
                Whitespace, <<"-">>),
            {"-"}, <<"-">>))

\* C19: the slug createPost stores when no slug is supplied is Slugify of the
\* title, and has no leading or trailing hyphen.
C19_DerivedSlugExact ==
    (ret.op = "createPost" /\ ret.err = "none" /\ ret.val.slug = <<>>) =>
        LET slug == posts[ret.val.id].slug
        IN  /\ slug = Slugify(ret.val.title)
            /\ slug # <<>>
            /\ Head(slug) # "-"
            /\ slug[Len(slug)] # "-"

\* The number of words of a content: its maximal runs of non-whitespace.
WordCount(content) ==
    Cardinality({i \in DOMAIN content :
                    /\ content[i] \notin Whitespace
                    /\ i = 1 \/ content[i - 1] \in Whitespace})

\* C20: the read time equals max(1, ceil(wordCount(content) / 200)), where
\* leading or trailing whitespace adds no word.
C20_ReadTime ==
    ret.op = "calculateReadTime" =>
        LET minutes == Ceil(WordCount(ret.val.content), 200)
        IN  ret.val.readTime = IF minutes >= 1 THEN minutes ELSE 1

(***************************************************************************)
(* The paginated lists: UserService.getUsers and                           *)
(* PostService.getPostsByCategory. Both run find().sort().skip().limit()   *)
(* and countDocuments() on one filter and report the page arithmetic.      *)
(* Documents are created in the order of their _id, so createdAt orders    *)
(* as _id does. The role and search options of getUsers are left           *)
(* undefined.                                                              *)
(***************************************************************************)
DefaultPage == 1
DefaultLimit == 10

\* .skip(n) of a cursor
Skip(s, n) == IF n >= Len(s) THEN <<>> ELSE SubSeq(s, n + 1, Len(s))

\* User.find({ isActive }) / User.countDocuments({ isActive })
UsersMatching(isActive) == {u \in DOMAIN users : users[u].isActive = isActive}

PageResult(op, args, items, totalCount) ==
    [op |-> op, err |-> "none",
     val |-> [args |-> args, items |-> items, totalCount |-> totalCount,
              currentPage |-> args.page,
              totalPages |-> Ceil(totalCount, args.limit)]]

getUsers(page, limit, isActive) ==
    LET matching == UsersMatching(isActive)
        skip == (page - 1) * limit
    IN  /\ \E sorted \in DescOrders(matching, [u \in matching |-> u]) :
                ret' = PageResult("getUsers",
                                  [page |-> page, limit |-> limit, isActive |-> isActive],
                                  Take(Skip(sorted, skip), limit),
                                  Cardinality(matching))
        /\ UNCHANGED <<users, posts, comments, now, pc, fetched, calls, db>>

\* { categories: category, status: PUBLISHED, publishedAt: { $lte: new Date() } }
CategoryMatching(category) ==
    {p \in DOMAIN posts :
        /\ category \in posts[p].categories
        /\ posts[p].status = PUBLISHED
        /\ posts[p].publishedAt # NoDate
        /\ posts[p].publishedAt <= now}

\* The key the cursor sorts on. sortBy 'likes' names likesCount, a virtual
\* that no stored document has: every document sorts equal.
PageSortKey(sortBy, S) ==
    [p \in S |-> CASE sortBy = "createdAt" -> p
                   [] sortBy = "views" -> posts[p].views
                   [] OTHER -> 0]

getPostsByCategory(category, page, limit, sortBy, sortOrder) ==
    LET matching == CategoryMatching(category)
        skip == (page - 1) * limit
        key == PageSortKey(sortBy, matching)
        orders == IF sortOrder = "desc" THEN DescOrders(matching, key)
                                        ELSE AscOrders(matching, key)
    IN  /\ \E sorted \in orders :
                ret' = PageResult("getPostsByCategory",
                                  [page |-> page, limit |-> limit, category |-> category,
                                   sortBy |-> sortBy, sortOrder |-> sortOrder],
                                  Take(Skip(sorted, skip), limit),
                                  Cardinality(matching))
        /\ UNCHANGED <<users, posts, comments, now, pc, fetched, calls, db>>

(***************************************************************************)
(* PageSpec: one paginated call over a family of stores of at most         *)
(* MaxPageDocs users and posts.                                            *)
(***************************************************************************)
MaxPageDocs == 3
MaxPage == 3
MaxLimit == 2

PageInputs == DefaultPage .. MaxPage
LimitInputs == (1 .. MaxLimit) \cup {DefaultLimit}
SortByInputs == {"createdAt", "views", "likes"}
SortOrderInputs == {"asc", "desc"}
PageCategories == {"Technology", "Database"}

\* What distinguishes the documents of a store: whether the user is active
\* and the post published, and the views of the post.
PageShapes == [on : BOOLEAN, views : {0, 1}]

PageUser(i, shape) ==
    [email |-> <<"a", "@", "b", ".", "c">>, password |-> PasswordOf("a"),
     firstName |-> <<"A", "b">>, lastName |-> <<"c">>,
     username |-> <<"a", "b", "1">>, isActive |-> shape.on]

PagePost(i, shape) ==
    [title |-> <<"s">>, slug |-> <<"s">>, author |-> i,
     status |-> IF shape.on THEN PUBLISHED ELSE DRAFT,
     publishedAt |-> IF shape.on THEN 0 ELSE NoDate,
     categories |-> {"Technology"}, tags |-> {},
     featuredImage |-> NULL, views |-> shape.views, likes |-> {}]

PageInit ==
    /\ \E n \in 0 .. MaxPageDocs : \E shapes \in [1 .. n -> PageShapes] :
            /\ users = [i \in 1 .. n |-> PageUser(i, shapes[i])]
            /\ posts = [i \in 1 .. n |-> PagePost(i, shapes[i])]
    /\ comments = <<>>
    /\ now = 0
    /\ pc = [c \in Calls |-> "start"]
    /\ fetched = [c \in Calls |-> NoPost(<<>>)]
    /\ calls = [p \in {} |-> 0]
    /\ ret = NoReturn
    /\ db = Connected

PageNext ==
    \/ ret = NoReturn /\ \E page \in PageInputs, limit \in LimitInputs, isActive \in BOOLEAN :
                            getUsers(page, limit, isActive)
    \/ ret = NoReturn /\ \E category \in PageCategories, page \in PageInputs,
                            limit \in LimitInputs, sortBy \in SortByInputs,
                            sortOrder \in SortOrderInputs :
                            getPostsByCategory(category, page, limit, sortBy, sortOrder)

PageSpec == PageInit /\ [][PageNext]_vars

\* The documents the filter of the returned call matches.
PageMatching ==
    IF ret.op = "getUsers" THEN UsersMatching(ret.val.args.isActive)
                           ELSE CategoryMatching(ret.val.args.category)

\* How many matching documents the sort puts before x for certain, and how
\* many it may put before x or at its place.
SortedBefore(x) ==
    IF ret.op = "getUsers" THEN {y \in PageMatching : y > x}
    ELSE LET key == PageSortKey(ret.val.args.sortBy, PageMatching)
         IN  IF ret.val.args.sortOrder = "desc"
             THEN {y \in PageMatching : key[y] > key[x]}
             ELSE {y \in PageMatching : key[y] < key[x]}

SortedNotAfter(x) ==
    IF ret.op = "getUsers" THEN {y \in PageMatching : y >= x}
    ELSE LET key == PageSortKey(ret.val.args.sortBy, PageMatching)
         IN  IF ret.val.args.sortOrder = "desc"
             THEN {y \in PageMatching : key[y] >= key[x]}
             ELSE {y \in PageMatching : key[y] <= key[x]}

\* C21: a paginated list reports currentPage = page and
\* totalPages = ceil(totalCount / limit), that is the least number of pages of
\* limit records that hold totalCount records; totalPages is 0 exactly when
\* totalCount is 0; and the page holds the records that follow the first
\* (page - 1) * limit of the sorted matching records, at most limit of them.
C21_Pagination ==
    ret.op \in {"getUsers", "getPostsByCategory"} =>
        LET v == ret.val
            page == v.args.page
            limit == v.args.limit
            skip == (page - 1) * limit
            left == IF v.totalCount > skip THEN v.totalCount - skip ELSE 0
        IN  /\ v.currentPage = page
            /\ v.totalCount = Cardinality(PageMatching)
            /\ v.totalPages * limit >= v.totalCount
            /\ (v.totalPages - 1) * limit < v.totalCount
            /\ v.totalPages = 0 <=> v.totalCount = 0
            /\ Len(v.items) = Min(limit, left)
            /\ NoDup(v.items)
            /\ Range(v.items) \subseteq PageMatching
            /\ \A i \in DOMAIN v.items :
                    /\ Cardinality(SortedBefore(v.items[i])) <= skip + i - 1
                    /\ Cardinality(SortedNotAfter(v.items[i])) >= skip + i

\* The last page of a list of several pages, holding fewer than limit records.
C21_Witness ==
    /\ ret.op \in {"getUsers", "getPostsByCategory"}
    /\ ret.val.args.page >= 2
    /\ ret.val.totalPages = ret.val.args.page
    /\ ret.val.items # <<>>
    /\ Len(ret.val.items) < ret.val.args.limit
    /\ ret.val.totalCount % ret.val.args.limit # 0

\* C22: under createPost, publishPost and getPostBySlug every post whose
\* status is published has publishedAt set.
C22_PublishedHasDate ==
    \A p \in DOMAIN posts : posts[p].status = PUBLISHED => posts[p].publishedAt # NoDate

\* createPost has stored a post that was published from the start, after the
\* clock moved on.
C22_Witness ==
    /\ ret.op = "createPost"
    /\ ret.err = "none"
    /\ now > 0
    /\ posts[ret.val.id].status = PUBLISHED
    /\ posts[ret.val.id].publishedAt = now

(***************************************************************************)
(* ApprovalSpec: concurrent BlogService.addComment calls, each in its two  *)
(* steps: the await of countDocuments, then the construction and save of   *)
(* the comment with the count it was given. fetched holds what a call      *)
(* carries from the first step to the second.                              *)
(***************************************************************************)
NoCall == [post |-> NoId, author |-> NoId, parentComment |-> NoId, count |-> 0]

addCommentCount(c, postId, authorId, parentCommentId) ==
    /\ pc[c] = "start"
    /\ fetched' = [fetched EXCEPT ![c] =
                        [post |-> postId, author |-> authorId,
                         parentComment |-> parentCommentId,
                         count |-> previousApprovedComments(authorId)]]
    /\ pc' = [pc EXCEPT ![c] = "save"]
    /\ UNCHANGED <<users, posts, comments, now, calls, ret, db>>

addCommentSave(c) ==
    /\ pc[c] = "save"
    /\ comments' = Append(comments,
            [post |-> fetched[c].post, author |-> fetched[c].author,
             parentComment |-> fetched[c].parentComment,
             isApproved |-> Trusted(fetched[c].count),
             createdAt |-> now])
    /\ ret' = Returned("addComment", Len(comments) + 1)
    /\ pc' = [pc EXCEPT ![c] = "done"]
    /\ UNCHANGED <<users, posts, now, fetched, calls, db>>

\* The stores the calls start from: author 1 has 0, TrustThreshold or
\* TrustThreshold + 1 approved comments, and possibly one waiting for approval.
PendingComment ==
    [post |-> 1, author |-> 1, parentComment |-> NoId,
     isApproved |-> FALSE, createdAt |-> -1]

ApprovalInit ==
    /\ users = SeedUsers
    /\ posts = CommentPosts
    /\ \E n \in SeedApproved, pending \in BOOLEAN :
            comments = IF pending THEN Append(SeedComments(n), PendingComment)
                                  ELSE SeedComments(n)
    /\ now = 0
    /\ pc = [c \in Calls |-> "start"]
    /\ fetched = [c \in Calls |-> NoCall]
    /\ calls = [p \in PostIds |-> 0]
    /\ ret = NoReturn
    /\ db = Connected

ApprovalNext ==
    \/ \E c \in Calls, a \in UserIds, parent \in {NoId, 1} : addCommentCount(c, 1, a, parent)
    \/ \E c \in Calls : addCommentSave(c)

ApprovalSpec == ApprovalInit /\ [][ApprovalNext]_vars

\* C23: the step of addComment that stores the comment stores it approved
\* exactly if its author has more than 5 approved comments, both when the
\* call counted them and when it stores; and if no comment of the store the
\* calls started from is approved, no comment is approved.
C23_ApprovalRule ==
    /\ [][\A c \in Calls :
            (pc[c] = "save" /\ pc'[c] = "done") =>
                /\ Len(comments') = Len(comments) + 1
                /\ SubSeq(comments', 1, Len(comments)) = comments
                /\ comments'[Len(comments')].author = fetched[c].author
                /\ comments'[Len(comments')].isApproved <=> fetched[c].count > 5
                /\ comments'[Len(comments')].isApproved <=>
                        previousApprovedComments(fetched[c].author) > 5]_vars
    /\ []((\A i \in DOMAIN comments : comments[i].createdAt < 0 => ~comments[i].isApproved)
            => \A i \in DOMAIN comments : ~comments[i].isApproved)

\* Two calls of a trusted author overlapped: one counted 6 approved comments
\* and has not stored yet, the other has stored its comment approved
\* meanwhile; an untrusted author's comment would be stored unapproved.
C23_Witness ==
    \E c, d \in Calls :
        /\ pc[c] = "done" /\ pc[d] = "save"
        /\ fetched[d].author = 1 /\ fetched[d].count = 6
        /\ previousApprovedComments(1) = 7
        /\ comments[Len(comments)].isApproved

(***************************************************************************)
(* DatabaseConnection. connect() tests isConnected, awaits                 *)
(* mongoose.connect() and then sets the flag and registers the handlers;   *)
(* disconnect() tests the flag, awaits the close and clears the flag. Each *)
(* await is a point where other calls run. fetched holds the method a call *)
(* runs. The SIGINT handler ends the process; only its registration is     *)
(* modelled.                                                               *)
(***************************************************************************)
ConnCall(method) == [op |-> method]

\* connect(): the test of isConnected and the call of mongoose.connect().
connectStart(c) ==
    /\ pc[c] \in {"start", "done"}
    /\ fetched' = [fetched EXCEPT ![c] = ConnCall("connect")]
    /\ IF db.isConnected
       THEN /\ pc' = [pc EXCEPT ![c] = "done"]
            /\ db' = db
            /\ ret' = Returned("connect", "Database already connected")
       ELSE /\ pc' = [pc EXCEPT ![c] = "connecting"]
            /\ db' = [db EXCEPT !.opens = @ + 1]
            /\ ret' = ret
    /\ UNCHANGED <<users, posts, comments, now, calls>>

\* connect(): mongoose.connect() resolves, or rejects into the catch block.
\* On a connection that is open already it resolves.
connectResolve(c) ==
    /\ pc[c] = "connecting"
    /\ pc' = [pc EXCEPT ![c] = "done"]
    /\ \E resolved \in IF db.readyState = 1 THEN {TRUE} ELSE BOOLEAN :
        IF resolved
        THEN /\ db' = [db EXCEPT !.isConnected = TRUE, !.readyState = 1,
                                 !.handlers = @ + 1]
             /\ ret' = Returned("connect", "Connected to MongoDB")
        ELSE /\ db' = db
             /\ ret' = Returned("connect", "Database connection failed")
    /\ UNCHANGED <<users, posts, comments, now, fetched, calls>>

\* disconnect(): the test of isConnected and the call of connection.close().
disconnectStart(c) ==
    /\ pc[c] \in {"start", "done"}
    /\ fetched' = [fetched EXCEPT ![c] = ConnCall("disconnect")]
    /\ IF ~db.isConnected
       THEN /\ pc' = [pc EXCEPT ![c] = "done"]
            /\ ret' = Returned("disconnect", "not connected")
       ELSE /\ pc' = [pc EXCEPT ![c] = "closing"]
            /\ ret' = ret
    /\ db' = db
    /\ UNCHANGED <<users, posts, comments, now, calls>>

\* disconnect(): the close resolves.
disconnectResolve(c) ==
    /\ pc[c] = "closing"
    /\ pc' = [pc EXCEPT ![c] = "done"]
    /\ db' = [db EXCEPT !.isConnected = FALSE, !.readyState = 0]
    /\ ret' = Returned("disconnect", "Database connection closed")
    /\ UNCHANGED <<users, posts, comments, now, fetched, calls>>

\* The registered 'error' and 'disconnected' handlers, when the connection
\* is lost.
connectionLost ==
    /\ db.readyState = 1
    /\ db.handlers > 0
    /\ db' = [db EXCEPT !.isConnected = FALSE, !.readyState = 0]
    /\ UNCHANGED <<users, posts, comments, now, pc, fetched, calls, ret>>

getConnectionStatus ==
    /\ ret' = Returned("getConnectionStatus", db.isConnected /\ db.readyState = 1)
    /\ UNCHANGED <<users, posts, comments, now, pc, fetched, calls, db>>

(***************************************************************************)
(* ConnSpec: NumCalls callers of the singleton, each calling connect() or  *)
(* disconnect() again and again, until mongoose.connect() has been called  *)
(* MaxOpens times.                                                         *)
(***************************************************************************)
MaxOpens == 3

ConnInit ==
    /\ users = SeedUsers
    /\ posts = SeedPosts
    /\ comments = <<>>
    /\ now = 0
    /\ pc = [c \in Calls |-> "start"]
    /\ fetched = [c \in Calls |-> ConnCall("none")]
    /\ calls = [p \in PostIds |-> 0]
    /\ ret = NoReturn
    /\ db = DatabaseConnection

ConnNext ==
    \/ \E c \in Calls : (db.isConnected \/ db.opens < MaxOpens) /\ connectStart(c)
    \/ \E c \in Calls : connectResolve(c)
    \/ \E c \in Calls : disconnectStart(c)
    \/ \E c \in Calls : disconnectResolve(c)
    \/ connectionLost
    \/ getConnectionStatus

ConnSpec == ConnInit /\ [][ConnNext]_vars

\* C24: a connect() that finds the connection made returns at once and
\* changes nothing, and so does a disconnect() that finds none; no two
\* connect() calls are inside mongoose.connect() together, and the handlers
\* are registered only by a call that made the connection, not on a
\* connection that another call has made already.
C24_ConnectOnce ==
    /\ [](Cardinality({c \in Calls : pc[c] = "connecting"}) <= 1)
    /\ [][/\ \A c \in Calls :
                (pc[c] \in {"start", "done"} /\ fetched'[c] # fetched[c]
                    /\ fetched'[c].op = "connect" /\ db.isConnected)
                    => (pc'[c] = "done" /\ db' = db)
          /\ \A c \in Calls :
                (pc'[c] # pc[c] /\ fetched'[c].op = "disconnect" /\ ~db.isConnected)
                    => (pc'[c] = "done" /\ db' = db)
          /\ db'.handlers > db.handlers => ~db.isConnected]_vars

=============================================================================
